---- MODULE Spec2Model ----
(***************************************************************************)
(* The dynamic-programming and hidden-Markov-model code of the lecture     *)
(* notebooks:                                                              *)
(*   - BruteForceShortestPath and DynamicProgrammingShortestPath           *)
(*     (src/unnamed/part_001),                                             *)
(*   - HMMBB.forward / backward / ffbs / viterbi                           *)
(*     (src/lectures/L08_hidden_markov_models/02_hmm_continued.ipynb),     *)
(*   - CallOptionPricer.american_price                                     *)
(*     (src/lectures/L03_dynamic_programming/04_options_pricing.ipynb).    *)
(*                                                                         *)
(* Numbers.  Edge costs are integers, so a difference of two cost values   *)
(* exceeds the 1e-10 tolerance exactly when it is at least 1.  Every       *)
(* probability and option value is an exact rational (see the Rational     *)
(* section); floating-point rounding is not modelled.                      *)
(***************************************************************************)
EXTENDS Integers, Sequences, FiniteSets, TLC

VARIABLES
    \* ---- shortest path: the constructor arguments shared by both classes
    dag,          \* [keys: Seq(vertex), adj: [vertex -> Seq(<<w, cost>>)]]
    vertex,       \* start vertex
    terminal,     \* terminal vertex
    \* ---- DynamicProgrammingShortestPath
    dp_pc,        \* "idle" | "loop" | "returned" | "path" | "done" | "raised" | "interrupted"
    dp_err,       \* "" | "KeyError" | "ValueError" | "IndexError"
    J_n,          \* previous iterate
    J_np1,        \* current iterate
    dp_iter,      \* completed sweeps of the while loop
    J_first,      \* the J passed to the first Bellman sweep (history)
    dp_cnode,     \* find_shortest_path: current node
    dp_cpath,     \* find_shortest_path: current path
    \* ---- BruteForceShortestPath
    bf_pc,        \* "idle" | "loop" | "traversed" | "done" | "raised"
    bf_err,
    bf_actions,   \* traverse_paths: the local dict available_actions
    bf_cnode,
    bf_cpath,
    paths_costs,  \* Seq of [path, cost] in insertion order
    min_cost_paths,
    bf_exit,      \* how the while loop ended: "" | "break" | "empty"
    \* ---- HMMBB
    P,            \* self.P: [0..1 -> [0..1 -> rational]]
    emp,          \* self.emp: [0..1 -> [symbol -> rational]]
    realized_returns,  \* the observations: [0..T-1 -> symbol]
    hmm_pc,       \* "args" | "rejected" | "idle" | "forward" | "backward" | "probabilities" | "viterbi" | "ffbs" | "done"
    alphas,       \* what forward returned
    betas,        \* what backward returned
    filtering_probs,  \* what filter_probabilities(alphas) returned
    smoothing_probs,  \* what smooth_probabilities(alphas, betas) returned
    first_call,       \* what the first round of calls returned, <<>> during it
    log_mus,      \* viterbi's table
    xt_star,      \* what viterbi returned
    x_sample,     \* ffbs: the sampled path so far
    sample_probs, \* ffbs: the current sampling probabilities
    ffbs_t,       \* ffbs: the loop variable t
    drawn_from,   \* ffbs: for each t drawn so far, the sample_probs it was drawn from
    \* ---- CallOptionPricer
    opt_S,        \* np.exp(logSgrid): [0..nS-1 -> rational]
    opt_K,
    opt_T,
    opt_r,
    opt_pc,       \* "idle" | "loop" | "done"
    opt_t,        \* american_price: the loop variable t
    a_t,
    V_t,
    american_price  \* V_0(log_S0), once returned

graphVars == <<dag, vertex, terminal>>
dpVars == <<dp_pc, dp_err, J_n, J_np1, dp_iter, J_first, dp_cnode, dp_cpath>>
bfVars == <<bf_pc, bf_err, bf_actions, bf_cnode, bf_cpath, paths_costs,
            min_cost_paths, bf_exit>>
hmmVars == <<P, emp, realized_returns, hmm_pc, alphas, betas, first_call, filtering_probs,
             smoothing_probs, log_mus, xt_star, x_sample, sample_probs, ffbs_t,
             drawn_from>>
optVars == <<opt_S, opt_K, opt_T, opt_r, opt_pc, opt_t, a_t, V_t, american_price>>

vars == <<graphVars, dpVars, bfVars, hmmVars, optVars>>

(***************************************************************************)
(* Bounds of the model.                                                    *)
(***************************************************************************)
\* generated graphs have this many non-terminal vertices
NumInner == 2
\* the while loop of find_cost_function is followed for this many sweeps
MaxIterations == 7
\* find_shortest_path is followed up to a path of this many vertices
MaxPath == 8
\* probabilities of the hidden Markov models are multiples of 1/ProbDen
ProbDen == 3
\* observation sequences have 1..MaxT entries
MaxT == 3
\* the option expires after 1..MaxHorizon periods (the T of CallOptionPricer)
MaxHorizon == 3
\* the price grid has 2..MaxGrid points (nS)
MaxGrid == 3
\* strike prices are 0..MaxStrike
MaxStrike == 4

(***************************************************************************)
(* Program constants.                                                      *)
(***************************************************************************)
\* J_n = {v: 100 for v in nodes}
InitialJn == 100
\* min_cost = 1e10; TLC's integers end at 2^31 - 1, so the threshold is modelled by
\* 1e9: like 1e10 it is far above every value the solvers compute on the graphs of
\* the model, and values a caller passes above the threshold still fit an integer
InitialMinCost == 1000000000

(***************************************************************************)
(* Sequence helpers.                                                       *)
(***************************************************************************)
Range(s) == {s[i] : i \in 1..Len(s)}

RECURSIVE SumSeq(_)
SumSeq(s) == IF s = <<>> THEN 0 ELSE Head(s) + SumSeq(Tail(s))

MinOf(S) == CHOOSE x \in S : \A y \in S : x <= y
MaxOf(S) == CHOOSE x \in S : \A y \in S : x >= y
Abs(x) == IF x < 0 THEN -x ELSE x

IndexOf(s, x) == CHOOSE i \in 1..Len(s) : s[i] = x

(***************************************************************************)
(* Rational: the numbers of the probability and option code, exact.        *)
(* [n, d] with d > 0 in lowest terms; d = 0 is a float special:            *)
(* n = 0 nan, n = 1 inf, n = -1 -inf.                                      *)
(***************************************************************************)
RECURSIVE GCD(_, _)
GCD(a, b) == IF b = 0 THEN a ELSE GCD(b, a % b)

Sign(x) == IF x > 0 THEN 1 ELSE IF x < 0 THEN -1 ELSE 0

\* n/d for d # 0, in lowest terms
Frac(n, d) ==
    LET g == GCD(Abs(n), Abs(d))
    IN [n |-> Sign(d) * (n \div g), d |-> Abs(d) \div g]

NaN == [n |-> 0, d |-> 0]
RZero == [n |-> 0, d |-> 1]
ROne == [n |-> 1, d |-> 1]
RHalf == [n |-> 1, d |-> 2]
RInt(k) == [n |-> k, d |-> 1]
IsFinite(x) == x.d # 0
IsNaN(x) == x.d = 0 /\ x.n = 0

RAdd(x, y) ==
    IF IsNaN(x) \/ IsNaN(y) THEN NaN
    ELSE IF ~IsFinite(x) /\ ~IsFinite(y) THEN (IF x.n = y.n THEN x ELSE NaN)
    ELSE IF ~IsFinite(x) THEN x
    ELSE IF ~IsFinite(y) THEN y
    ELSE Frac(x.n * y.d + y.n * x.d, x.d * y.d)

RNeg(x) == [n |-> -x.n, d |-> x.d]
RSub(x, y) == RAdd(x, RNeg(y))

RMul(x, y) ==
    IF IsNaN(x) \/ IsNaN(y) THEN NaN
    ELSE IF ~IsFinite(x) \/ ~IsFinite(y)
         THEN (IF x.n = 0 \/ y.n = 0 THEN NaN ELSE [n |-> Sign(x.n) * Sign(y.n), d |-> 0])
    ELSE Frac(x.n * y.n, x.d * y.d)

\* x / y as numpy divides floats: x/0 is nan, inf or -inf, never an exception
RDiv(x, y) ==
    IF IsNaN(x) \/ IsNaN(y) THEN NaN
    ELSE IF ~IsFinite(x) /\ ~IsFinite(y) THEN NaN
    ELSE IF ~IsFinite(x) THEN [n |-> x.n * (IF y.n < 0 THEN -1 ELSE 1), d |-> 0]
    ELSE IF ~IsFinite(y) THEN RZero
    ELSE IF y.n = 0 THEN [n |-> Sign(x.n), d |-> 0]
    ELSE Frac(x.n * y.d, x.d * y.n)

\* x < y; false when either is nan
RLess(x, y) ==
    IF IsNaN(x) \/ IsNaN(y) THEN FALSE
    ELSE IF ~IsFinite(x) \/ ~IsFinite(y)
         THEN (IF IsFinite(x) THEN y.n = 1 ELSE IF IsFinite(y) THEN x.n = -1
               ELSE x.n < y.n)
    ELSE x.n * y.d < y.n * x.d
RLeq(x, y) == ~IsNaN(x) /\ ~IsNaN(y) /\ ~RLess(y, x)

\* np.maximum(x, y): nan when either is
RMax(x, y) == IF IsNaN(x) \/ IsNaN(y) THEN NaN ELSE IF RLess(x, y) THEN y ELSE x

\* the sum of f over the integer interval lo..hi, added in index order
RECURSIVE RSum(_, _, _)
RSum(f, lo, hi) == IF hi < lo THEN RZero ELSE RAdd(RSum(f, lo, hi - 1), f[hi])

(***************************************************************************)
(* Logarithms: off + ln(arg) with arg a positive rational, or -inf.        *)
(* np.log(x) has off = 0; a table entry of np.ones has off = 1, arg = 1.   *)
(***************************************************************************)
LNegInf == [inf |-> TRUE, off |-> 0, arg |-> RZero]
\* np.log(x) for a probability x >= 0: log(0) is -inf
Log(x) == IF x.n = 0 THEN LNegInf ELSE [inf |-> FALSE, off |-> 0, arg |-> x]
\* the float k as an entry of a log table
LReal(k) == [inf |-> FALSE, off |-> k, arg |-> ROne]
LAdd(a, b) ==
    IF a.inf \/ b.inf THEN LNegInf
    ELSE [inf |-> FALSE, off |-> a.off + b.off, arg |-> RMul(a.arg, b.arg)]
\* np.exp of a sum of np.log terms
Exp(a) == IF a.inf THEN RZero ELSE CASE a.off = 0 -> a.arg
\* a < b, for two values that carry the same offset
LLess(a, b) ==
    IF b.inf THEN FALSE
    ELSE IF a.inf THEN TRUE
    ELSE CASE a.off = b.off -> RLess(a.arg, b.arg)

(***************************************************************************)
(* The graph: a dict of dicts, keys in insertion order.                    *)
(***************************************************************************)
KeySet(d) == Range(d.keys)
\* self.dag[v][w]
EdgeCost(d, v, w) ==
    LET i == CHOOSE k \in 1..Len(d.adj[v]) : d.adj[v][k][1] = w IN d.adj[v][i][2]
\* list(self.dag[v].keys())
DictKeys(d, v) == [i \in 1..Len(d.adj[v]) |-> d.adj[v][i][1]]

is_at_end(v) == v = terminal

\* the value of available_actions(v); self.dag[v] raises KeyError when v is no key
available_actions(v) == IF is_at_end(v) THEN <<>> ELSE DictKeys(dag, v)
available_actions_raises(v) == ~is_at_end(v) /\ v \notin KeySet(dag)

evaluate_path(cpath) ==
    SumSeq([i \in 1..(Len(cpath) - 1) |-> EdgeCost(dag, cpath[i], cpath[i + 1])])

(***************************************************************************)
(* DynamicProgrammingShortestPath                                          *)
(***************************************************************************)
compare_J(Jn, Jnp1) == MaxOf({Abs(Jn[k] - Jnp1[k]) : k \in KeySet(dag)})

\* a loop test that no pair of iterates fails
ExceedsTolerance_mut(d) == d >= 0

\* compare_J(J_n, J_np1) > 1e-10, on integers
ExceedsTolerance(d) == d >= 1

eval_action(v, w, J) == EdgeCost(dag, v, w) + J[w]

\* a Bellman step that takes the most expensive action
bellman_min_mut(S) == MaxOf(S)

\* min_J_np1 = min(J_np1.values())
bellman_min(S) == MinOf(S)

\* "" when bellman_equation(v, J) returns, otherwise the exception it raises
bellman_raises(v, J) ==
    IF v = terminal THEN ""
    ELSE IF v \notin KeySet(dag) THEN "KeyError"
    ELSE IF \E w \in Range(available_actions(v)) : w \notin DOMAIN J THEN "KeyError"
    ELSE IF available_actions(v) = <<>> THEN "ValueError"
    ELSE ""

bellman_equation(v, J) ==
    IF v = terminal THEN 0
    ELSE bellman_min({eval_action(v, w, J) : w \in Range(available_actions(v))})

\* index in nodes of the first node whose Bellman update raises, 0 if none
FirstRaise(J) ==
    LET bad == {i \in 1..Len(dag.keys) : bellman_raises(dag.keys[i], J) # ""}
    IN IF bad = {} THEN 0 ELSE MinOf(bad)

\* a start that sweeps from the guess 100: J_n and J_np1 exchanged
FcfStart_mut ==
    /\ dp_pc = "idle"
    /\ J_n' = [v \in KeySet(dag) |-> 0]
    /\ J_np1' = [v \in KeySet(dag) |-> InitialJn]
    /\ dp_pc' = "loop"
    /\ UNCHANGED <<dag, vertex, terminal, dp_err, dp_iter, J_first, dp_cnode, dp_cpath>>
    /\ UNCHANGED <<bfVars, hmmVars, optVars>>

\* J_n = {v: 100 for v in nodes}; J_np1 = {v: 0 for v in nodes}
FcfStart ==
    /\ dp_pc = "idle"
    /\ J_n' = [v \in KeySet(dag) |-> InitialJn]
    /\ J_np1' = [v \in KeySet(dag) |-> 0]
    /\ dp_pc' = "loop"
    /\ UNCHANGED <<dag, vertex, terminal, dp_err, dp_iter, J_first, dp_cnode, dp_cpath>>
    /\ UNCHANGED <<bfVars, hmmVars, optVars>>

\* one pass of the while loop body
FcfSweep ==
    /\ dp_pc = "loop"
    /\ ExceedsTolerance(compare_J(J_n, J_np1))
    /\ dp_iter < MaxIterations
    /\ J_n' = J_np1
    /\ LET r == FirstRaise(J_np1) IN
         /\ J_np1' = [v \in KeySet(dag) |->
                        IF r = 0 \/ IndexOf(dag.keys, v) < r
                        THEN bellman_equation(v, J_np1) ELSE J_np1[v]]
         /\ dp_pc' = IF r = 0 THEN "loop" ELSE "raised"
         /\ dp_err' = IF r = 0 THEN "" ELSE bellman_raises(dag.keys[r], J_np1)
    /\ dp_iter' = dp_iter + 1
    /\ J_first' = IF dp_iter = 0 THEN J_np1 ELSE J_first
    /\ UNCHANGED <<dag, vertex, terminal, dp_cnode, dp_cpath>>
    /\ UNCHANGED <<bfVars, hmmVars, optVars>>

FcfReturn ==
    /\ dp_pc = "loop"
    /\ ~ExceedsTolerance(compare_J(J_n, J_np1))
    /\ dp_pc' = "returned"
    /\ UNCHANGED <<dag, vertex, terminal, dp_err, J_n, J_np1, dp_iter, J_first,
                   dp_cnode, dp_cpath>>
    /\ UNCHANGED <<bfVars, hmmVars, optVars>>

\* find_shortest_path(J) is called with the J that find_cost_function returned
FspStart ==
    /\ dp_pc = "returned"
    /\ dp_cnode' = vertex
    /\ dp_cpath' = <<vertex>>
    /\ dp_pc' = "path"
    /\ UNCHANGED <<dag, vertex, terminal, dp_err, J_n, J_np1, dp_iter, J_first>>
    /\ UNCHANGED <<bfVars, hmmVars, optVars>>

\* the values of a cost function a caller passes to find_shortest_path: small
\* costs and two values above the 1e10 threshold
JValues == {0, 1, InitialMinCost + 1, 2 * InitialMinCost}

\* find_shortest_path(J) called with a J of the caller's own, on a fresh solver
FspStartWith ==
    /\ dp_pc = "idle"
    /\ \E J \in [KeySet(dag) -> JValues] : J_np1' = J
    /\ dp_cnode' = vertex
    /\ dp_cpath' = <<vertex>>
    /\ dp_pc' = "path"
    /\ UNCHANGED <<dag, vertex, terminal, dp_err, J_n, dp_iter, J_first>>
    /\ UNCHANGED <<bfVars, hmmVars, optVars>>

\* a policy that keeps the last action tried, whatever its value
optimal_action_mut(v, J) == available_actions(v)[Len(available_actions(v))]

\* the action the for loop of find_shortest_path ends with: the first action whose
\* value is strictly below every earlier one and below 1e10, else actions[0]
optimal_action(v, J) ==
    LET actions == available_actions(v)
        val(i) == eval_action(v, actions[i], J)
        better == {i \in 1..Len(actions) :
                     /\ val(i) < InitialMinCost
                     /\ \A k \in 1..(i - 1) : val(k) > val(i)
                     /\ \A k \in 1..Len(actions) : val(k) >= val(i)}
    IN IF better = {} THEN actions[1] ELSE actions[MinOf(better)]

fsp_raises(v, J) ==
    IF available_actions_raises(v) THEN "KeyError"
    ELSE IF available_actions(v) = <<>> THEN "IndexError"
    ELSE IF \E w \in Range(available_actions(v)) : w \notin DOMAIN J THEN "KeyError"
    ELSE ""

FspStep ==
    /\ dp_pc = "path"
    /\ ~is_at_end(dp_cnode)
    /\ Len(dp_cpath) < MaxPath
    /\ IF fsp_raises(dp_cnode, J_np1) # ""
       THEN /\ dp_pc' = "raised"
            /\ dp_err' = fsp_raises(dp_cnode, J_np1)
            /\ UNCHANGED <<dp_cnode, dp_cpath>>
       ELSE /\ dp_cnode' = optimal_action(dp_cnode, J_np1)
            /\ dp_cpath' = Append(dp_cpath, optimal_action(dp_cnode, J_np1))
            /\ UNCHANGED <<dp_pc, dp_err>>
    /\ UNCHANGED <<dag, vertex, terminal, J_n, J_np1, dp_iter, J_first>>
    /\ UNCHANGED <<bfVars, hmmVars, optVars>>

FspReturn ==
    /\ dp_pc = "path"
    /\ is_at_end(dp_cnode)
    /\ dp_pc' = "done"
    /\ UNCHANGED <<dag, vertex, terminal, dp_err, J_n, J_np1, dp_iter, J_first,
                   dp_cnode, dp_cpath>>
    /\ UNCHANGED <<bfVars, hmmVars, optVars>>

\* the caller stops a call that is still looping when the model stops following it
DpInterrupt ==
    /\ \/ dp_pc = "loop" /\ ExceedsTolerance(compare_J(J_n, J_np1))
                         /\ dp_iter >= MaxIterations
       \/ dp_pc = "path" /\ ~is_at_end(dp_cnode) /\ Len(dp_cpath) >= MaxPath
    /\ dp_pc' = "interrupted"
    /\ UNCHANGED <<dag, vertex, terminal, dp_err, J_n, J_np1, dp_iter, J_first,
                   dp_cnode, dp_cpath>>
    /\ UNCHANGED <<bfVars, hmmVars, optVars>>

DpOver == dp_pc \in {"done", "raised", "interrupted"}

(***************************************************************************)
(* BruteForceShortestPath                                                  *)
(***************************************************************************)
\* available_actions = {k: self.available_actions(k) for k in self.dag.keys()}
BfStart ==
    /\ bf_pc = "idle"
    /\ DpOver
    /\ bf_actions' = [k \in KeySet(dag) |-> available_actions(k)]
    /\ bf_cnode' = vertex
    /\ bf_cpath' = <<vertex>>
    /\ bf_pc' = "loop"
    /\ UNCHANGED <<bf_err, paths_costs, min_cost_paths, bf_exit>>
    /\ UNCHANGED <<graphVars, dpVars, hmmVars, optVars>>

\* paths_costs[tuple(cpath)] = cost: a key already present keeps its place
StorePath(pc, cpath, cost) ==
    IF \E i \in 1..Len(pc) : pc[i].path = cpath
    THEN [i \in 1..Len(pc) |-> IF pc[i].path = cpath
                               THEN [path |-> cpath, cost |-> cost] ELSE pc[i]]
    ELSE Append(pc, [path |-> cpath, cost |-> cost])

\* cpath[:-1]
step_back_cpath(cpath) == SubSeq(cpath, 1, Len(cpath) - 1)
\* cpath[-1] of the shortened path raises IndexError when it is empty
step_back_raises(cpath) == Len(cpath) <= 1
step_back_cnode(cpath) == cpath[Len(cpath) - 1]

\* if self.is_at_end(cnode)
BfAtEnd ==
    /\ bf_pc = "loop"
    /\ Len(bf_cpath) > 0
    /\ bf_cnode \in DOMAIN bf_actions
    /\ is_at_end(bf_cnode)
    /\ paths_costs' = StorePath(paths_costs, bf_cpath, evaluate_path(bf_cpath))
    /\ IF step_back_raises(bf_cpath)
       THEN /\ bf_pc' = "raised"
            /\ bf_err' = "IndexError"
            /\ UNCHANGED <<bf_cnode, bf_cpath>>
       ELSE /\ bf_cnode' = step_back_cnode(bf_cpath)
            /\ bf_cpath' = step_back_cpath(bf_cpath)
            /\ UNCHANGED <<bf_pc, bf_err>>
    /\ UNCHANGED <<bf_actions, min_cost_paths, bf_exit>>
    /\ UNCHANGED <<graphVars, dpVars, hmmVars, optVars>>

\* elif (len(cactions) == 0) and (len(cpath) > 1)
BfStepBack ==
    /\ bf_pc = "loop"
    /\ Len(bf_cpath) > 1
    /\ bf_cnode \in DOMAIN bf_actions
    /\ ~is_at_end(bf_cnode)
    /\ bf_actions[bf_cnode] = <<>>
    /\ bf_actions' = [bf_actions EXCEPT ![bf_cnode] = available_actions(bf_cnode)]
    /\ bf_cnode' = step_back_cnode(bf_cpath)
    /\ bf_cpath' = step_back_cpath(bf_cpath)
    /\ UNCHANGED <<bf_pc, bf_err, paths_costs, min_cost_paths, bf_exit>>
    /\ UNCHANGED <<graphVars, dpVars, hmmVars, optVars>>

\* an advance that pops from the graph's own list of the current vertex
BfAdvance_mut ==
    /\ bf_pc = "loop"
    /\ Len(bf_cpath) > 0
    /\ bf_cnode \in DOMAIN bf_actions
    /\ ~is_at_end(bf_cnode)
    /\ bf_actions[bf_cnode] # <<>>
    /\ LET cactions == bf_actions[bf_cnode]
           caction == cactions[Len(cactions)]
           own == dag.adj[bf_cnode]
       IN /\ bf_actions' = [bf_actions EXCEPT
                              ![bf_cnode] = SubSeq(cactions, 1, Len(cactions) - 1)]
          /\ dag' = [dag EXCEPT !.adj[bf_cnode] = SubSeq(own, 1, Len(own) - 1)]
          /\ bf_cnode' = caction
          /\ bf_cpath' = Append(bf_cpath, caction)
    /\ UNCHANGED <<bf_pc, bf_err, paths_costs, min_cost_paths, bf_exit>>
    /\ UNCHANGED <<vertex, terminal>>
    /\ UNCHANGED <<dpVars, hmmVars, optVars>>

\* elif len(cactions) > 0: caction = cactions.pop()
BfAdvance ==
    /\ bf_pc = "loop"
    /\ Len(bf_cpath) > 0
    /\ bf_cnode \in DOMAIN bf_actions
    /\ ~is_at_end(bf_cnode)
    /\ bf_actions[bf_cnode] # <<>>
    /\ LET cactions == bf_actions[bf_cnode]
           caction == cactions[Len(cactions)]
       IN /\ bf_actions' = [bf_actions EXCEPT
                              ![bf_cnode] = SubSeq(cactions, 1, Len(cactions) - 1)]
          /\ bf_cnode' = caction
          /\ bf_cpath' = Append(bf_cpath, caction)
    /\ UNCHANGED <<bf_pc, bf_err, paths_costs, min_cost_paths, bf_exit>>
    /\ UNCHANGED <<graphVars, dpVars, hmmVars, optVars>>

\* else: break, then return paths_costs
BfBreak ==
    /\ bf_pc = "loop"
    /\ Len(bf_cpath) = 1
    /\ bf_cnode \in DOMAIN bf_actions
    /\ ~is_at_end(bf_cnode)
    /\ bf_actions[bf_cnode] = <<>>
    /\ bf_pc' = "traversed"
    /\ bf_exit' = "break"
    /\ UNCHANGED <<bf_err, bf_actions, bf_cnode, bf_cpath, paths_costs, min_cost_paths>>
    /\ UNCHANGED <<graphVars, dpVars, hmmVars, optVars>>

\* cactions = available_actions[cnode] raises KeyError when cnode is no key
BfKeyError ==
    /\ bf_pc = "loop"
    /\ Len(bf_cpath) > 0
    /\ bf_cnode \notin DOMAIN bf_actions
    /\ bf_pc' = "raised"
    /\ bf_err' = "KeyError"
    /\ UNCHANGED <<bf_actions, bf_cnode, bf_cpath, paths_costs, min_cost_paths, bf_exit>>
    /\ UNCHANGED <<graphVars, dpVars, hmmVars, optVars>>

\* the paths that find_shortest_paths keeps: cost <= the minimum, in dict order
MinCostPaths(pc) ==
    LET min_cost == MinOf({pc[i].cost : i \in 1..Len(pc)})
        keep(e) == e.cost <= min_cost
    IN [i \in 1..Len(SelectSeq(pc, keep)) |-> SelectSeq(pc, keep)[i].path]

\* find_shortest_paths after traverse_paths returned; min() of no paths raises
BfFindShortestPaths ==
    /\ bf_pc = "traversed"
    /\ IF paths_costs = <<>>
       THEN /\ bf_pc' = "raised"
            /\ bf_err' = "ValueError"
            /\ UNCHANGED min_cost_paths
       ELSE /\ bf_pc' = "done"
            /\ min_cost_paths' = MinCostPaths(paths_costs)
            /\ UNCHANGED bf_err
    /\ UNCHANGED <<bf_actions, bf_cnode, bf_cpath, paths_costs, bf_exit>>
    /\ UNCHANGED <<graphVars, dpVars, hmmVars, optVars>>

(***************************************************************************)
(* The graphs the solvers are constructed on.                              *)
(***************************************************************************)
InnerNames == <<"A", "B", "C", "D", "E", "F">>
GenKeys == Append(SubSeq(InnerNames, 1, NumInner), "G")
\* the edge costs of generated graphs: free and unit edges
Costs == {0, 1}
\* the value of a slot that holds no edge
Absent == MaxOf(Costs) + 1
\* the pairs (i, j), i < j, of positions in GenKeys: an edge towards the terminal
ForwardSlots == {<<i, j>> \in (1..NumInner) \X (2..(NumInner + 1)) : i < j}
\* at most one edge back: none (0, 0), or from position i to an earlier position j
BackSlots == {<<0, 0>>} \cup {<<i, j>> \in (2..NumInner) \X (1..NumInner) : j < i}

\* the dict of vertex i: its forward edges in key order, then the back edge
GenAdj(f, b, bc, i) ==
    LET fwd == SelectSeq([k \in 1..(NumInner + 1) |->
                            <<GenKeys[k],
                              IF <<i, k>> \in ForwardSlots THEN f[<<i, k>>] ELSE Absent>>],
                         LAMBDA e : e[2] # Absent)
    IN IF b[1] = i THEN Append(fwd, <<GenKeys[b[2]], bc>>) ELSE fwd

GenDag(f, b, bc) ==
    [keys |-> GenKeys,
     adj |-> [v \in Range(GenKeys) |->
                IF v = "G" THEN <<>> ELSE GenAdj(f, b, bc, IndexOf(GenKeys, v))]]

\* simple_cost_dict
SimpleCostDict ==
    [keys |-> <<"A", "B", "C", "D", "E", "F", "G">>,
     adj |-> [v \in {"A", "B", "C", "D", "E", "F", "G"} |->
        CASE v = "A" -> << <<"B", 1>>, <<"C", 5>>, <<"D", 3>> >>
          [] v = "B" -> << <<"D", 9>>, <<"E", 6>> >>
          [] v = "C" -> << <<"F", 2>> >>
          [] v = "D" -> << <<"F", 4>>, <<"G", 8>> >>
          [] v = "E" -> << <<"G", 4>> >>
          [] v = "F" -> << <<"G", 1>> >>
          [] v = "G" -> <<>>]]

\* the cost_dict of the two class docstrings: "G" is no key
DocstringCostDict ==
    [keys |-> <<"A", "B", "C", "D", "E", "F">>,
     adj |-> [v \in {"A", "B", "C", "D", "E", "F"} |->
        CASE v = "A" -> << <<"B", 1>>, <<"C", 5>> >>
          [] v = "B" -> << <<"D", 9>>, <<"E", 6>> >>
          [] v = "C" -> << <<"F", 2>> >>
          [] v = "D" -> << <<"F", 4>>, <<"G", 8>> >>
          [] v = "E" -> << <<"G", 4>> >>
          [] v = "F" -> << <<"G", 1>> >>]]

\* the example graphs start at "A"; a generated graph starts at any of its vertices
InitGraph ==
    \/ /\ dag \in {SimpleCostDict, DocstringCostDict}
       /\ vertex = "A"
       /\ terminal = "G"
    \/ /\ \E f \in [ForwardSlots -> Costs \cup {Absent}] :
          \E b \in BackSlots :
          \E bc \in (IF b = <<0, 0>> THEN {0} ELSE Costs) :
             dag = GenDag(f, b, bc)
       /\ vertex \in Range(GenKeys)
       /\ terminal = "G"

InitDp ==
    /\ dp_pc = "idle"
    /\ dp_err = ""
    /\ J_n = <<>>
    /\ J_np1 = <<>>
    /\ dp_iter = 0
    /\ J_first = <<>>
    /\ dp_cnode = ""
    /\ dp_cpath = <<>>

InitBf ==
    /\ bf_pc = "idle"
    /\ bf_err = ""
    /\ bf_actions = <<>>
    /\ bf_cnode = ""
    /\ bf_cpath = <<>>
    /\ paths_costs = <<>>
    /\ min_cost_paths = <<>>
    /\ bf_exit = ""

(***************************************************************************)
(* HMMBB: two hidden states (0 bear, 1 bull); the models checked have two   *)
(* return levels, 0 and 1.                                                 *)
(***************************************************************************)
States == 0..1
Symbols == {0, 1}
SizeOf(y) == Cardinality(DOMAIN y)
\* a[i] with Python's wrap-around for a negative index
PyIndex(i, n) == IF i < 0 THEN i + n ELSE i

\* a first row that leaves out the initial distribution
alpha_init_mut(y, i) == emp[i][y[0]]

\* alphas[0, i] = self.emp[i, :][realized_returns[0]] * 0.5
alpha_init(y, i) == RMul(emp[i][y[0]], RHalf)

\* a predictor that reads the transition matrix transposed
predictor_mut(prev, i) ==
    RAdd(RAdd(RZero, RMul(prev[0], P[i][0])), RMul(prev[1], P[i][1]))

\* predictor_bear / predictor_bull: the sum over j of alphas[t-1, j]*self.P[j, i]
predictor(prev, i) ==
    RAdd(RAdd(RZero, RMul(prev[0], P[0][i])), RMul(prev[1], P[1][i]))

\* alphas[t, i] = self.emp[i, :][realized_returns[t]]*predictor
alpha_step(y, t, prev, i) == RMul(emp[i][y[t]], predictor(prev, i))

RECURSIVE forward_row(_, _)
forward_row(y, t) ==
    IF t = 0 THEN [i \in States |-> alpha_init(y, i)]
    ELSE LET prev == forward_row(y, t - 1)
         IN [i \in States |-> alpha_step(y, t, prev, i)]

forward(y) == [t \in 0..(SizeOf(y) - 1) |-> forward_row(y, t)]

\* alphas / np.sum(alphas, axis=1)[:, None]
filter_probabilities(al) ==
    [t \in DOMAIN al |-> [i \in States |-> RDiv(al[t][i], RAdd(al[t][0], al[t][1]))]]

\* a term that reads the transition matrix transposed
beta_term_mut(y, tp1, next, i, j) ==
    Exp(LAdd(LAdd(Log(emp[j][y[tp1]]), Log(next[j])), Log(P[j][i])))

\* np.exp(_val + np.log(self.P[i, j])), _val = log(emp[j, y[tp1]]) + log(betas[tp1, j])
beta_term(y, tp1, next, i, j) ==
    Exp(LAdd(LAdd(Log(emp[j][y[tp1]]), Log(next[j])), Log(P[i][j])))

\* value_bear / value_bull: the sum over j, from 0.0
beta_value(y, tp1, next, i) ==
    RAdd(RAdd(RZero, beta_term(y, tp1, next, i, 0)), beta_term(y, tp1, next, i, 1))

\* a last row that is 1 for the bear state only
beta_last_mut(i) == IF i = 0 THEN ROne ELSE RHalf

\* betas[-1, :] = 1
beta_last(i) == ROne

RECURSIVE backward_row(_, _)
backward_row(y, t) ==
    IF t = SizeOf(y) - 1 THEN [i \in States |-> beta_last(i)]
    ELSE LET next == backward_row(y, t + 1)
         IN [i \in States |-> beta_value(y, t + 1, next, i)]

\* range(T-1, 0, -1) writes the rows T-2 .. 0
backward(y) == [t \in 0..(SizeOf(y) - 1) |-> backward_row(y, t)]

\* alphas*betas / np.sum(alphas*betas, axis=1)[:, None]
smooth_probabilities(al, be) ==
    [t \in DOMAIN al |->
       LET ab == [i \in States |-> RMul(al[t][i], be[t][i])]
       IN [i \in States |-> RDiv(ab[i], RAdd(ab[0], ab[1]))]]

\* max() of two values, np.argmax of a pair: the first of equal values wins
LMax2(a, b) == IF LLess(a, b) THEN b ELSE a
LArgmax2(v) == IF LLess(v[0], v[1]) THEN 1 ELSE 0

\* log_mus = np.ones((T, 2))
log_mu_last(i) == LReal(1)

\* max(possible_values) for log_mus[t-1, xtm1]
log_mu_value(y, t, next, xtm1) ==
    LET possible_values == [xt \in States |->
            LAdd(LAdd(Log(emp[xt][y[t]]), Log(P[xtm1][xt])), next[xt])]
    IN LMax2(possible_values[0], possible_values[1])

RECURSIVE log_mu_row(_, _)
log_mu_row(y, t) ==
    IF t = SizeOf(y) - 1 THEN [i \in States |-> log_mu_last(i)]
    ELSE LET next == log_mu_row(y, t + 1)
         IN [i \in States |-> log_mu_value(y, t + 1, next, i)]

viterbi_log_mus(y) == [t \in 0..(SizeOf(y) - 1) |-> log_mu_row(y, t)]

\* the first assignment to xt_star[0], with np.log(0.5)
xt_star_first(y, mu) ==
    LArgmax2([i \in States |-> LAdd(LAdd(Log(emp[i][y[0]]), Log(RHalf)), mu[0][i])])

\* the index the loop reads for the previous state: xt_star[t-1]
prev_index(t, T) == PyIndex(t - 1, T)

\* the body of `for t in range(T)`
xt_star_step(y, mu, xs, t) ==
    LArgmax2([i \in States |->
        LAdd(LAdd(Log(emp[i][y[t]]), Log(P[xs[prev_index(t, SizeOf(y))]][i])), mu[t][i])])

\* xt_star after the loop has run for t = 0 .. upto
RECURSIVE xt_star_loop(_, _, _)
xt_star_loop(y, mu, upto) ==
    IF upto < 0
    THEN [[t \in 0..(SizeOf(y) - 1) |-> 0] EXCEPT ![0] = xt_star_first(y, mu)]
    ELSE LET xs == xt_star_loop(y, mu, upto - 1)
         IN [xs EXCEPT ![upto] = xt_star_step(y, mu, xs, upto)]

viterbi(y) == xt_star_loop(y, viterbi_log_mus(y), SizeOf(y) - 1)

\* the states rv.draw() can return for qe.DiscreteRV(q): Q.searchsorted(u, side="right")
\* for u uniform on [0, 1) gives i exactly when Q[i-1] <= u < Q[i]; with nan in q the
\* cumulative sums are not ordered and the result is unspecified
DrawSupport(q) ==
    IF \E i \in States : ~IsFinite(q[i]) THEN States
    ELSE {i \in States : q[i].n > 0}

\* sample_probs = self.P[:, x_sample[t]]*betas[t-1, :], then divided by its sum
backward_weights(be, t, x) == [i \in States |-> RMul(P[i][x], be[t - 1][i])]
normalised(w) == [i \in States |-> RDiv(w[i], RAdd(w[0], w[1]))]

\* if t-1 > 0
updates_sample_probs(t) == t - 1 > 0

HmmForward ==
    /\ hmm_pc = "idle"
    /\ alphas' = forward(realized_returns)
    /\ hmm_pc' = "forward"
    /\ UNCHANGED <<P, emp, realized_returns, betas, log_mus, xt_star, x_sample,
                   sample_probs, ffbs_t, drawn_from>>
    /\ UNCHANGED <<filtering_probs, smoothing_probs, first_call>>
    /\ UNCHANGED <<graphVars, dpVars, bfVars, optVars>>

HmmBackward ==
    /\ hmm_pc = "forward"
    /\ betas' = backward(realized_returns)
    /\ hmm_pc' = "backward"
    /\ UNCHANGED <<P, emp, realized_returns, alphas, log_mus, xt_star, x_sample,
                   sample_probs, ffbs_t, drawn_from>>
    /\ UNCHANGED <<filtering_probs, smoothing_probs, first_call>>
    /\ UNCHANGED <<graphVars, dpVars, bfVars, optVars>>

\* filtering_probs = self.filter_probabilities(alphas)
\* smoothing_probs = self.smooth_probabilities(alphas, betas)
HmmProbabilities ==
    /\ hmm_pc = "backward"
    /\ filtering_probs' = filter_probabilities(alphas)
    /\ smoothing_probs' = smooth_probabilities(alphas, betas)
    /\ hmm_pc' = "probabilities"
    /\ UNCHANGED <<P, emp, realized_returns, alphas, betas, log_mus, xt_star, x_sample,
                   sample_probs, ffbs_t, drawn_from>>
    /\ UNCHANGED first_call
    /\ UNCHANGED <<graphVars, dpVars, bfVars, optVars>>

HmmViterbi ==
    /\ hmm_pc = "probabilities"
    /\ log_mus' = viterbi_log_mus(realized_returns)
    /\ xt_star' = viterbi(realized_returns)
    /\ hmm_pc' = "viterbi"
    /\ UNCHANGED <<P, emp, realized_returns, alphas, betas, x_sample,
                   sample_probs, ffbs_t, drawn_from>>
    /\ UNCHANGED <<filtering_probs, smoothing_probs, first_call>>
    /\ UNCHANGED <<graphVars, dpVars, bfVars, optVars>>

\* ffbs up to its loop: its own forward and backward tables, the filtered row T-1
FfbsStart ==
    /\ hmm_pc = "viterbi"
    /\ LET T == SizeOf(realized_returns)
           filtered_probabilities == filter_probabilities(forward(realized_returns))
       IN /\ x_sample' = [t \in 0..(T - 1) |-> 0]
          /\ sample_probs' = filtered_probabilities[T - 1]
          /\ ffbs_t' = T - 1
    /\ drawn_from' = <<>>
    /\ hmm_pc' = "ffbs"
    /\ UNCHANGED <<P, emp, realized_returns, alphas, betas, log_mus, xt_star>>
    /\ UNCHANGED <<filtering_probs, smoothing_probs, first_call>>
    /\ UNCHANGED <<graphVars, dpVars, bfVars, optVars>>

\* one pass of `for t in range(T-1, -1, -1)`
FfbsDraw ==
    /\ hmm_pc = "ffbs"
    /\ ffbs_t >= 0
    /\ \E x \in DrawSupport(sample_probs) :
         /\ x_sample' = [x_sample EXCEPT ![ffbs_t] = x]
         /\ sample_probs' =
              IF updates_sample_probs(ffbs_t)
              THEN normalised(backward_weights(backward(realized_returns), ffbs_t, x))
              ELSE sample_probs
    /\ drawn_from' = [t \in (DOMAIN drawn_from) \cup {ffbs_t} |->
                        IF t = ffbs_t THEN sample_probs ELSE drawn_from[t]]
    /\ ffbs_t' = ffbs_t - 1
    /\ UNCHANGED <<P, emp, realized_returns, hmm_pc, alphas, betas, log_mus, xt_star>>
    /\ UNCHANGED <<filtering_probs, smoothing_probs, first_call>>
    /\ UNCHANGED <<graphVars, dpVars, bfVars, optVars>>

FfbsReturn ==
    /\ hmm_pc = "ffbs"
    /\ ffbs_t < 0
    /\ hmm_pc' = "done"
    /\ UNCHANGED <<P, emp, realized_returns, alphas, betas, log_mus, xt_star,
                   x_sample, sample_probs, ffbs_t, drawn_from>>
    /\ UNCHANGED <<filtering_probs, smoothing_probs, first_call>>
    /\ UNCHANGED <<graphVars, dpVars, bfVars, optVars>>

\* the probabilities the models are built from: k/ProbDen
Probs == {Frac(k, ProbDen) : k \in 0..ProbDen}
\* a row of emission probabilities: it sums to 1
EmissionRows == {e \in [Symbols -> Probs] : RAdd(e[0], e[1]) = ROne}

\* HMMBB(p_bear, p_bull, r_bear_probs, r_bull_probs) and an observed sequence
InitHmmInputs ==
    /\ \E p_bear \in Probs, p_bull \in Probs :
         P = [i \in States |-> [j \in States |->
                IF i = 0 THEN (IF j = 0 THEN p_bear ELSE RSub(ROne, p_bear))
                ELSE (IF j = 0 THEN RSub(ROne, p_bull) ELSE p_bull)]]
    /\ \E r_bear_probs \in EmissionRows, r_bull_probs \in EmissionRows :
         emp = [i \in States |-> IF i = 0 THEN r_bear_probs ELSE r_bull_probs]
    /\ \E T \in 1..MaxT : realized_returns \in [0..(T - 1) -> Symbols]

\* the numbers a caller may pass as a probability: also a negative one and 1
RawValues == {RNeg(Frac(1, ProbDen)), RZero, Frac(1, ProbDen), ROne}
\* r_bear_probs: any two numbers
RawRows == [Symbols -> RawValues]
\* r_bull_probs: any two numbers, or an array of one entry
ShortRows == [{0} -> {ROne}]

\* the arguments of HMMBB(...) before __init__ has run; P is the array that
\* __init__ builds from p_bear and p_bull, emp holds the two rows to be stacked
InitHmmArgs ==
    /\ \E p_bear \in RawValues, p_bull \in RawValues :
         P = [i \in States |-> [j \in States |->
                IF i = 0 THEN (IF j = 0 THEN p_bear ELSE RSub(ROne, p_bear))
                ELSE (IF j = 0 THEN RSub(ROne, p_bull) ELSE p_bull)]]
    /\ \E r_bear_probs \in RawRows, r_bull_probs \in RawRows \cup ShortRows :
         emp = [i \in States |-> IF i = 0 THEN r_bear_probs ELSE r_bull_probs]
    /\ \E T \in 1..MaxT : realized_returns \in [0..(T - 1) -> Symbols]
    /\ hmm_pc = "args"

\* qe.MarkovChain(self.P) raises ValueError unless P is square, non-negative and
\* its rows sum to 1 (quantecon's validation)
markov_chain_raises(p) ==
    \/ \E i \in States, j \in States : p[i][j].n < 0
    \/ \E i \in States : RAdd(p[i][0], p[i][1]) # ROne

\* np.row_stack([r_bear_probs, r_bull_probs]) raises ValueError when the two
\* arrays differ in length
row_stack_raises(e) == DOMAIN e[0] # DOMAIN e[1]

\* HMMBB.__init__
HmmConstruct ==
    /\ hmm_pc = "args"
    /\ hmm_pc' = IF markov_chain_raises(P) \/ row_stack_raises(emp)
                 THEN "rejected" ELSE "idle"
    /\ UNCHANGED <<P, emp, realized_returns, alphas, betas, log_mus, xt_star, x_sample,
                   sample_probs, ffbs_t, drawn_from>>
    /\ UNCHANGED <<filtering_probs, smoothing_probs, first_call>>
    /\ UNCHANGED <<graphVars, dpVars, bfVars, optVars>>

InitHmmCalls ==
    /\ hmm_pc = "idle"
    /\ alphas = <<>>
    /\ betas = <<>>
    /\ filtering_probs = <<>>
    /\ smoothing_probs = <<>>
    /\ first_call = <<>>
    /\ log_mus = <<>>
    /\ xt_star = <<>>
    /\ x_sample = <<>>
    /\ sample_probs = <<>>
    /\ ffbs_t = 0
    /\ drawn_from = <<>>

(***************************************************************************)
(* CallOptionPricer.american_price                                         *)
(*                                                                         *)
(* logSgrid is an evenly spaced grid of log prices and opt_S[i] the price  *)
(* np.exp(logSgrid[i]).  The 50,000 normal shocks of one period are        *)
(* modelled by a shock of one grid step down or up, each with probability  *)
(* 1/2, so V_tp1 is read at the neighbouring grid points and, beyond the   *)
(* ends of the grid, at its linear extrapolation (fill_value).             *)
(***************************************************************************)
GridPoints(S) == DOMAIN S
nS(S) == Cardinality(DOMAIN S)

\* V_tp1(x) of interp1d(logSgrid, row, fill_value="extrapolate") one step off point i
interp_at(row, n, i) ==
    IF i < 0 THEN RSub(RAdd(row[0], row[0]), row[1])
    ELSE IF i > n - 1 THEN RSub(RAdd(row[n - 1], row[n - 1]), row[n - 2])
    ELSE row[i]

\* EV_tp1 = np.mean(V_tp1(log_Stp1))
EV_tp1(row, n, i) == RMul(RHalf, RAdd(interp_at(row, n, i - 1), interp_at(row, n, i + 1)))

\* V_exercise = S_t - K
V_exercise(i) == RSub(opt_S[i], RInt(opt_K))
\* V_defer = 0 + (1 / (1+r)) * EV_tp1
V_defer(row, n, i) == RMul(RDiv(ROne, RAdd(ROne, opt_r)), EV_tp1(row, n, i))

\* np.maximum(0, np.exp(logSgrid) - K)
terminal_condition(i) == RMax(RZero, V_exercise(i))

\* the row index the loop body writes: t-1, Python wrapping -1 to the last row
written_row(t, T) == PyIndex(t - 1, T)

\* 0 if V_defer >= V_exercise else 1
decision(row, n, i) == IF RLeq(V_exercise(i), V_defer(row, n, i)) THEN 0 ELSE 1
value(row, n, i) == RMax(V_exercise(i), V_defer(row, n, i))

\* american_price up to its loop
OptStart ==
    /\ opt_pc = "idle"
    /\ a_t' = [t \in 0..(opt_T - 1) |-> [i \in GridPoints(opt_S) |-> 0]]
    /\ V_t' = [t \in 0..(opt_T - 1) |-> [i \in GridPoints(opt_S) |->
                 IF t = opt_T - 1 THEN terminal_condition(i) ELSE RZero]]
    /\ opt_t' = opt_T - 1
    /\ opt_pc' = "loop"
    /\ UNCHANGED <<opt_S, opt_K, opt_T, opt_r, american_price>>
    /\ UNCHANGED <<graphVars, dpVars, bfVars, hmmVars>>

\* one pass of `for t in range(T-1, -1, -1)`: V_tp1 is built from row t, then
\* every grid point of row t-1 is written
OptSweep ==
    /\ opt_pc = "loop"
    /\ opt_t >= 0
    /\ LET row == V_t[opt_t]
           n == nS(opt_S)
           w == written_row(opt_t, opt_T)
       IN /\ a_t' = [a_t EXCEPT ![w] = [i \in GridPoints(opt_S) |-> decision(row, n, i)]]
          /\ V_t' = [V_t EXCEPT ![w] = [i \in GridPoints(opt_S) |-> value(row, n, i)]]
    /\ opt_t' = opt_t - 1
    /\ UNCHANGED <<opt_S, opt_K, opt_T, opt_r, opt_pc, american_price>>
    /\ UNCHANGED <<graphVars, dpVars, bfVars, hmmVars>>

\* V_0(log_S0): log_S0 is the middle of the grid
price_at_S0(row, n) ==
    IF n % 2 = 1 THEN row[n \div 2]
    ELSE RMul(RHalf, RAdd(row[n \div 2 - 1], row[n \div 2]))

OptReturn ==
    /\ opt_pc = "loop"
    /\ opt_t < 0
    /\ american_price' = price_at_S0(V_t[0], nS(opt_S))
    /\ opt_pc' = "done"
    /\ UNCHANGED <<opt_S, opt_K, opt_T, opt_r, opt_t, a_t, V_t>>
    /\ UNCHANGED <<graphVars, dpVars, bfVars, hmmVars>>

RECURSIVE Pow2(_)
Pow2(k) == IF k = 0 THEN 1 ELSE 2 * Pow2(k - 1)

\* interest rates 0 and 100%: discount factors 1 and 1/2
Rates == {RZero, ROne}

\* CallOptionPricer(log_S0, sigma, K, T, r) and the grid of american_price(nS):
\* prices 1, 2, 4, ..., evenly spaced in logs
InitOption ==
    /\ \E n \in 2..MaxGrid : opt_S = [i \in 0..(n - 1) |-> RInt(Pow2(i))]
    /\ opt_K \in 0..MaxStrike
    /\ opt_T \in 1..MaxHorizon
    /\ opt_r \in Rates
    /\ opt_pc = "idle"
    /\ opt_t = 0
    /\ a_t = <<>>
    /\ V_t = <<>>
    /\ american_price = RZero

(***************************************************************************)
(* The specifications: one per object, the other objects absent.          *)
(***************************************************************************)
\* no HMMBB object
NoHmm ==
    /\ P = <<>>
    /\ emp = <<>>
    /\ realized_returns = <<>>
    /\ hmm_pc = "none"
    /\ alphas = <<>>
    /\ betas = <<>>
    /\ filtering_probs = <<>>
    /\ smoothing_probs = <<>>
    /\ first_call = <<>>
    /\ log_mus = <<>>
    /\ xt_star = <<>>
    /\ x_sample = <<>>
    /\ sample_probs = <<>>
    /\ ffbs_t = 0
    /\ drawn_from = <<>>

\* no CallOptionPricer object
NoOption ==
    /\ opt_S = <<>>
    /\ opt_K = 0
    /\ opt_T = 0
    /\ opt_r = 0
    /\ opt_pc = "none"
    /\ opt_t = 0
    /\ a_t = <<>>
    /\ V_t = <<>>
    /\ american_price = RZero

\* no shortest-path object
NoGraph ==
    /\ dag = <<>>
    /\ vertex = ""
    /\ terminal = ""
    /\ dp_pc = "none"
    /\ dp_err = ""
    /\ J_n = <<>>
    /\ J_np1 = <<>>
    /\ dp_iter = 0
    /\ J_first = <<>>
    /\ dp_cnode = ""
    /\ dp_cpath = <<>>
    /\ bf_pc = "none"
    /\ bf_err = ""
    /\ bf_actions = <<>>
    /\ bf_cnode = ""
    /\ bf_cpath = <<>>
    /\ paths_costs = <<>>
    /\ min_cost_paths = <<>>
    /\ bf_exit = ""

Init == InitGraph /\ InitDp /\ InitBf /\ NoHmm /\ NoOption

\* DynamicProgrammingShortestPath on its own
Next ==
    \/ FcfStart
    \/ FcfSweep
    \/ FcfReturn
    \/ FspStart
    \/ FspStep
    \/ FspReturn
    \/ DpInterrupt

Spec == Init /\ [][Next]_vars

\* the solver keeps running: a call that can take a step takes it
SpecLive == Spec /\ WF_vars(Next)

\* both solvers on the same graph: the dynamic-programming solver, then the
\* brute-force solver
NextBoth ==
    \/ FcfStart
    \/ FcfSweep
    \/ FcfReturn
    \/ FspStart
    \/ FspStep
    \/ FspReturn
    \/ DpInterrupt
    \/ BfStart
    \/ BfAtEnd
    \/ BfStepBack
    \/ BfAdvance
    \/ BfBreak
    \/ BfKeyError
    \/ BfFindShortestPaths

SpecBoth == Init /\ [][NextBoth]_vars

\* find_shortest_path on its own, with any cost function
NextPolicy ==
    \/ FspStartWith
    \/ FspStep
    \/ FspReturn
    \/ DpInterrupt

SpecPolicy == Init /\ [][NextPolicy]_vars

InitHMM == InitHmmInputs /\ InitHmmCalls /\ NoGraph /\ NoOption

NextHMM ==
    \/ HmmForward
    \/ HmmBackward
    \/ HmmProbabilities
    \/ HmmViterbi
    \/ FfbsStart
    \/ FfbsDraw
    \/ FfbsReturn

SpecHMM == InitHMM /\ [][NextHMM]_vars

\* the caller makes the same calls a second time on the same object with the
\* same realized_returns
HmmRepeat ==
    /\ hmm_pc = "done"
    /\ first_call = <<>>
    /\ first_call' = [alphas |-> alphas, betas |-> betas, xt_star |-> xt_star,
                      x_sample |-> x_sample]
    /\ hmm_pc' = "idle"
    /\ alphas' = <<>>
    /\ betas' = <<>>
    /\ filtering_probs' = <<>>
    /\ smoothing_probs' = <<>>
    /\ log_mus' = <<>>
    /\ xt_star' = <<>>
    /\ x_sample' = <<>>
    /\ sample_probs' = <<>>
    /\ ffbs_t' = 0
    /\ drawn_from' = <<>>
    /\ UNCHANGED <<P, emp, realized_returns>>
    /\ UNCHANGED <<graphVars, dpVars, bfVars, optVars>>

NextRepeat ==
    \/ NextHMM
    \/ HmmRepeat

SpecRepeat == InitHMM /\ [][NextRepeat]_vars

\* either object and every call on it: both shortest-path solvers on a graph,
\* or the calls on an HMMBB and the same calls again
InitCalls == Init \/ InitHMM

NextCalls ==
    \/ NextBoth
    \/ NextRepeat

SpecCalls == InitCalls /\ [][NextCalls]_vars

\* HMMBB constructed from any arguments, then forward
InitHMMArgs ==
    /\ InitHmmArgs
    /\ alphas = <<>>
    /\ betas = <<>>
    /\ filtering_probs = <<>>
    /\ smoothing_probs = <<>>
    /\ first_call = <<>>
    /\ log_mus = <<>>
    /\ xt_star = <<>>
    /\ x_sample = <<>>
    /\ sample_probs = <<>>
    /\ ffbs_t = 0
    /\ drawn_from = <<>>
    /\ NoGraph
    /\ NoOption

NextHMMArgs ==
    \/ HmmConstruct
    \/ HmmForward

SpecHMMArgs == InitHMMArgs /\ [][NextHMMArgs]_vars

InitOpt == InitOption /\ NoGraph /\ NoHmm

NextOpt ==
    \/ OptStart
    \/ OptSweep
    \/ OptReturn

SpecOpt == InitOpt /\ [][NextOpt]_vars

(***************************************************************************)
(* Properties of the shortest-path solvers (checked under Spec).           *)
(***************************************************************************)
\* the vertices a dict mentions, as keys or as edge targets
Vertices(d) == KeySet(d) \cup UNION {Range(DictKeys(d, v)) : v \in KeySet(d)}
Succ(d, v) == IF v \in KeySet(d) THEN Range(DictKeys(d, v)) ELSE {}

RECURSIVE Closure(_, _)
Closure(d, S) ==
    LET more == S \cup UNION {Succ(d, v) : v \in S}
    IN IF more = S THEN S ELSE Closure(d, more)

\* the vertices reached from v by one or more edges
ReachableFrom(d, v) == Closure(d, Succ(d, v))
Acyclic(d) == \A v \in Vertices(d) : v \notin ReachableFrom(d, v)
CanReach(d, v, w) == v = w \/ w \in ReachableFrom(d, v)
NonNegativeCosts(d) ==
    \A v \in KeySet(d) : \A i \in 1..Len(d.adj[v]) : d.adj[v][i][2] >= 0
AllReachTerminal(d) == \A v \in Vertices(d) : CanReach(d, v, terminal)

FcfHasReturned == dp_pc \in {"returned", "path", "done"}

\* C1: on a finite acyclic graph with non-negative costs in which every vertex can
\* reach the terminal, the J that find_cost_function returns has J(terminal) = 0 and,
\* for every other vertex v, J(v) = min over the actions w of v of cost(v, w) + J(w).
C1_BellmanFixedPoint ==
    (FcfHasReturned /\ Acyclic(dag) /\ NonNegativeCosts(dag) /\ AllReachTerminal(dag))
    => /\ J_np1[terminal] = 0
       /\ \A v \in KeySet(dag) \ {terminal} :
            /\ Succ(dag, v) # {}
            /\ \E w \in Succ(dag, v) : J_np1[v] = EdgeCost(dag, v, w) + J_np1[w]
            /\ \A w \in Succ(dag, v) : J_np1[v] <= EdgeCost(dag, v, w) + J_np1[w]

\* C1 witness: find_cost_function has returned on such a graph after at least three
\* sweeps, with a positive cost from the start vertex.
C1_Witness ==
    /\ dp_pc = "returned"
    /\ Acyclic(dag) /\ NonNegativeCosts(dag) /\ AllReachTerminal(dag)
    /\ dag.keys = GenKeys
    /\ dp_iter >= 3
    /\ J_np1[vertex] > 0

\* C5: once MaxIterations sweeps have run without meeting the tolerance, the loop of
\* find_cost_function has stopped and reported the failure: it is never still looping,
\* unconverged, at that point.
C5_StopsAtMaxIterations ==
    (dp_pc = "loop" /\ dp_iter >= MaxIterations)
    => ~ExceedsTolerance(compare_J(J_n, J_np1))

\* every edge target is a key of the dict
TargetsAreKeys(d) == Vertices(d) = KeySet(d)

\* C6: on a finite acyclic graph in which the terminal is reachable from the start
\* vertex, once both solvers have been run, both have returned, the path of
\* find_shortest_path(find_cost_function()) is one of the paths of find_shortest_paths,
\* and its cost is the brute-force minimum and J(start).  (Stated for the graphs whose
\* edge targets are all keys and whose start vertex is not the terminal.)
C6_SameSolution ==
    (/\ Acyclic(dag) /\ CanReach(dag, vertex, terminal)
     /\ TargetsAreKeys(dag) /\ vertex # terminal
     /\ DpOver /\ bf_pc \in {"done", "raised"})
    => /\ dp_pc = "done"
       /\ bf_pc = "done"
       /\ dp_cpath \in Range(min_cost_paths)
       /\ \A i \in 1..Len(paths_costs) : evaluate_path(dp_cpath) <= paths_costs[i].cost
       /\ evaluate_path(dp_cpath) = J_np1[vertex]

\* C7: on simple_cost_dict with start A and terminal G, find_cost_function returns
\* J(A) = 8 and find_shortest_path returns A-C-F-G or A-D-F-G, of cost 8.
C7_SimpleGraph ==
    (dag = SimpleCostDict /\ vertex = "A" /\ terminal = "G")
    => /\ FcfHasReturned => J_np1["A"] = 8
       /\ dp_pc = "done" =>
            /\ dp_cpath \in {<<"A", "C", "F", "G">>, <<"A", "D", "F", "G">>}
            /\ evaluate_path(dp_cpath) = 8
       /\ dp_pc \notin {"raised", "interrupted"}

\* C7 witness: find_shortest_path has returned on simple_cost_dict.
C7_Witness == dag = SimpleCostDict /\ dp_pc = "done" /\ Len(dp_cpath) = 4

(***************************************************************************)
(* Properties of HMMBB, checked under SpecHMM.                             *)
(***************************************************************************)
HorizonT == SizeOf(realized_returns)
\* the states in which forward, backward have just returned their table
ForwardHasReturned == hmm_pc = "forward"
BackwardHasReturned == hmm_pc = "backward"
ViterbiHasReturned == hmm_pc \in {"viterbi", "ffbs", "done"}

\* pi0[x_0]*E[x_0,y_0]*prod_{t>=1} P[x_{t-1},x_t]*E[x_t,y_t], pi0 uniform
RECURSIVE JointUpTo(_, _, _)
JointUpTo(x, y, t) ==
    IF t = 0 THEN RMul(RHalf, emp[x[0]][y[0]])
    ELSE RMul(JointUpTo(x, y, t - 1), RMul(P[x[t - 1]][x[t]], emp[x[t]][y[t]]))
JointProbability(x, y) == JointUpTo(x, y, SizeOf(y) - 1)
StatePaths(y) == [DOMAIN y -> States]

\* the sum, over every state path x_t .. x_{T-1} that follows the state last
\* at t - 1, of acc times its factors P[x_{s-1},x_s]*E[x_s,y_s]: each path is
\* enumerated, none is merged with another
RECURSIVE PathSumFrom(_, _, _, _)
PathSumFrom(acc, last, t, y) ==
    IF t = SizeOf(y) THEN acc
    ELSE RAdd(PathSumFrom(RMul(acc, RMul(P[last][0], emp[0][y[t]])), 0, t + 1, y),
              PathSumFrom(RMul(acc, RMul(P[last][1], emp[1][y[t]])), 1, t + 1, y))

\* the sum over all 2^T state paths of pi0[x_0]*E[x_0,y_0]*prod P*E
PathSum(y) ==
    RAdd(PathSumFrom(RMul(RHalf, emp[0][y[0]]), 0, 1, y),
         PathSumFrom(RMul(RHalf, emp[1][y[0]]), 1, 1, y))

\* C8: forward returns alpha with alpha[0, i] = E[i, y[0]] * 0.5 and
\* alpha[t, i] = E[i, y[t]] * sum_j alpha[t-1, j] * P[j, i] for t in 1..T-1, every i
C8_ForwardRecursion ==
    ForwardHasReturned =>
        /\ DOMAIN alphas = 0..(HorizonT - 1)
        /\ \A i \in States :
             alphas[0][i] = RMul(emp[i][realized_returns[0]], RHalf)
        /\ \A t \in 1..(HorizonT - 1) : \A i \in States :
             alphas[t][i] =
                RMul(emp[i][realized_returns[t]],
                     RAdd(RMul(alphas[t - 1][0], P[0][i]), RMul(alphas[t - 1][1], P[1][i])))

\* forward has returned a table of at least two rows, with a row that tells
\* P from its transpose
C8_Witness ==
    /\ ForwardHasReturned
    /\ HorizonT >= 2
    /\ P[0][1] # P[1][0]
    /\ \E t \in 1..(HorizonT - 1) : \E i \in States : alphas[t][i].n > 0

\* C9: backward returns beta with beta[T-1, i] = 1 and
\* beta[t, i] = sum_j E[j, y[t+1]] * beta[t+1, j] * P[i, j] for t = T-2 .. 0;
\* every row 0..T-1 is filled from the final row t+1
C9_BackwardRecursion ==
    BackwardHasReturned =>
        /\ DOMAIN betas = 0..(HorizonT - 1)
        /\ \A i \in States : betas[HorizonT - 1][i] = ROne
        /\ \A t \in 0..(HorizonT - 2) : \A i \in States :
             betas[t][i] =
                RAdd(RMul(RMul(emp[0][realized_returns[t + 1]], betas[t + 1][0]), P[i][0]),
                     RMul(RMul(emp[1][realized_returns[t + 1]], betas[t + 1][1]), P[i][1]))

\* backward has returned a table of the longest horizon whose first row is
\* neither 0 nor 1
C9_Witness ==
    /\ BackwardHasReturned
    /\ HorizonT = MaxT
    /\ P[0][1] # P[1][0]
    /\ \E i \in States : betas[0][i] \notin {RZero, ROne}

\* C10: the likelihood sum_i alpha[T-1, i] equals the sum over all 2^T
\* hidden-state paths of the joint probability of the path and the observations
C10_LikelihoodIsPathSum ==
    ForwardHasReturned =>
        RAdd(alphas[HorizonT - 1][0], alphas[HorizonT - 1][1]) =
            PathSum(realized_returns)

\* forward has returned for the longest horizon with a likelihood strictly
\* between 0 and 1
C10_Witness ==
    /\ ForwardHasReturned
    /\ HorizonT = MaxT
    /\ Cardinality(StatePaths(realized_returns)) > 2
    /\ RLess(RZero, RAdd(alphas[HorizonT - 1][0], alphas[HorizonT - 1][1]))
    /\ RLess(RAdd(alphas[HorizonT - 1][0], alphas[HorizonT - 1][1]), ROne)

\* C2: the path viterbi returns has a joint probability, under the uniform
\* initial distribution, at least as large as that of every length-T state path
C2_ViterbiOptimal ==
    ViterbiHasReturned =>
        \A x \in StatePaths(realized_returns) :
            RLeq(JointProbability(x, realized_returns),
                 JointProbability(xt_star, realized_returns))

\* C3: ffbs draws x_{T-1} from the normalised alpha[T-1, :] and every x_t,
\* t = T-2 .. 0, from the weights P[i, x_{t+1}] * beta[t, i], normalised,
\* of the x_{t+1} it drew
C3_FfbsWeights ==
    hmm_pc = "done" =>
        /\ drawn_from[HorizonT - 1] = normalised(alphas[HorizonT - 1])
        /\ \A t \in 0..(HorizonT - 2) :
             drawn_from[t] =
                normalised([i \in States |-> RMul(P[i][x_sample[t + 1]], betas[t][i])])

(***************************************************************************)
(* Properties of CallOptionPricer.american_price, checked under SpecOpt.   *)
(***************************************************************************)
\* C4: the value grid american_price returns is the backward-induction
\* solution: its last row is the terminal payoff max(0, S - K) and every
\* earlier row t is max{S - K, (1/(1+r)) * E[V_{t+1}]} of the final row t+1
C4_BackwardInduction ==
    opt_pc = "done" =>
        /\ \A i \in GridPoints(opt_S) :
             V_t[opt_T - 1][i] = RMax(RZero, RSub(opt_S[i], RInt(opt_K)))
        /\ \A t \in 0..(opt_T - 2) : \A i \in GridPoints(opt_S) :
             V_t[t][i] =
                RMax(RSub(opt_S[i], RInt(opt_K)),
                     RMul(RDiv(ROne, RAdd(ROne, opt_r)),
                          EV_tp1(V_t[t + 1], nS(opt_S), i)))

(***************************************************************************)
(* The distribution of the path ffbs returns.                              *)
(***************************************************************************)
\* the probability with which ffbs made the draws x_sample[t .. T-1]: the product
\* of the weights it drew each of them from
RECURSIVE DrawProbabilityFrom(_)
DrawProbabilityFrom(t) ==
    IF t > HorizonT - 1 THEN ROne
    ELSE RMul(drawn_from[t][x_sample[t]], DrawProbabilityFrom(t + 1))

\* every draw was made from weights that are numbers
DrawsDefined == \A t \in DOMAIN drawn_from : \A i \in States : IsFinite(drawn_from[t][i])

\* C11: ffbs draws its path from the joint posterior P(x | y): the probability
\* of the draws that gave x_sample, times the likelihood P(y), is the joint
\* probability P(x_sample, y)
C11_FfbsJointPosterior ==
    (hmm_pc = "done" /\ DrawsDefined)
        => RMul(DrawProbabilityFrom(0), PathSum(realized_returns)) =
               JointProbability(x_sample, realized_returns)

(***************************************************************************)
(* Properties of the shortest-path solvers, continued.                     *)
(***************************************************************************)
\* no path: above every cost of a path
NoPath == InitialMinCost

\* the cost of the cheapest path from v to the terminal of at most k edges
RECURSIVE CostWithin(_, _)
CostWithin(v, k) ==
    IF v = terminal THEN 0
    ELSE IF k = 0 THEN NoPath
    ELSE LET through == {w \in Succ(dag, v) : CostWithin(w, k - 1) # NoPath}
         IN IF through = {} THEN NoPath
            ELSE MinOf({EdgeCost(dag, v, w) + CostWithin(w, k - 1) : w \in through})

\* the true shortest cost from v to the terminal (costs are non-negative)
TrueCost(v) == CostWithin(v, Cardinality(Vertices(dag)))

\* the sum of all edge costs of the graph: no path without a repeated edge costs more
TotalCost(d) == SumSeq([i \in 1..Len(d.keys) |->
                    SumSeq([k \in 1..Len(d.adj[d.keys[i]]) |-> d.adj[d.keys[i]][k][2]])])

\* some vertex of the graph has no path to the terminal
HasStrandedVertex(d) == \E v \in KeySet(d) : ~CanReach(d, v, terminal)

\* find_cost_function has raised (find_shortest_path was never started)
FcfHasRaised == dp_pc = "raised" /\ dp_cpath = <<>>

\* C12: on a graph with a vertex that has no path to the terminal,
\* find_cost_function raises no error, and the J it returns holds the true
\* shortest cost of every vertex that reaches the terminal and, for every vertex
\* that does not, a value above the cost of every path
C12_UnreachableSentinel ==
    (HasStrandedVertex(dag) /\ TargetsAreKeys(dag) /\ NonNegativeCosts(dag))
    => /\ ~FcfHasRaised
       /\ FcfHasReturned =>
            \A v \in KeySet(dag) :
                IF CanReach(dag, v, terminal) THEN J_np1[v] = TrueCost(v)
                ELSE J_np1[v] > TotalCost(dag)

\* C13: at each vertex v it visits, find_shortest_path moves to an action w that
\* minimises cost(v, w) + J(w) over available_actions(v), the first such action in
\* the order of the vertex's dict; stated of every step of the path built so far
C13_FirstMinimiser ==
    dp_pc \in {"path", "done"} =>
        \A i \in 1..(Len(dp_cpath) - 1) :
            LET v == dp_cpath[i]
                w == dp_cpath[i + 1]
                actions == available_actions(v)
            IN /\ \A k \in 1..Len(actions) :
                     eval_action(v, actions[k], J_np1) >= eval_action(v, w, J_np1)
               /\ \A k \in 1..(IndexOf(actions, w) - 1) :
                     eval_action(v, actions[k], J_np1) > eval_action(v, w, J_np1)

(***************************************************************************)
(* Properties of the filtered and smoothed probabilities.                  *)
(***************************************************************************)
\* filter_probabilities and smooth_probabilities have just returned
ProbabilitiesHaveReturned == hmm_pc = "probabilities"
RowSum(row) == RAdd(row[0], row[1])
\* P(y_0 .. y_{T-1}), the sum of the last row of alphas
Likelihood == RowSum(alphas[HorizonT - 1])

\* C14: for every valid model and observation sequence, at every t the filtered
\* probabilities sum to 1 over the states and so do the smoothed probabilities
C14_RowsSumToOne ==
    ProbabilitiesHaveReturned =>
        \A t \in 0..(HorizonT - 1) :
            /\ RowSum(filtering_probs[t]) = ROne
            /\ RowSum(smoothing_probs[t]) = ROne

C16_SingleObservation ==
    (ProbabilitiesHaveReturned /\ HorizonT = 1) =>
        /\ \A i \in States : betas[0][i] = ROne
        /\ \A i \in States :
             /\ filtering_probs[0][i] = RDiv(alphas[0][i], RowSum(alphas[0]))
             /\ smoothing_probs[0][i] = RDiv(alphas[0][i], RowSum(alphas[0]))
        /\ RowSum(filtering_probs[0]) = ROne
        /\ RowSum(smoothing_probs[0]) = ROne

(***************************************************************************)
(* Validation of the model, checked under SpecHMMArgs.                     *)
(***************************************************************************)
\* the sum of a row of emp over its own entries
RSumOverRow(row) == RSum(row, 0, Cardinality(DOMAIN row) - 1)

\* a transition or emission row that does not sum to 1, a negative probability,
\* or emission rows of different lengths
Malformed ==
    \/ \E i \in States : RAdd(P[i][0], P[i][1]) # ROne
    \/ \E i \in States, j \in States : P[i][j].n < 0
    \/ DOMAIN emp[0] # DOMAIN emp[1]
    \/ \E i \in States : \E k \in DOMAIN emp[i] : emp[i][k].n < 0
    \/ \E i \in States : RSumOverRow(emp[i]) # ROne

\* C17: a malformed model is rejected with an error before any recursion step
\* runs: it is never constructed and forward never returns for it
C17_MalformedRejected ==
    Malformed => hmm_pc \in {"args", "rejected"}

(***************************************************************************)
(* Zero-sum weights in ffbs, checked under SpecHMM.                        *)
(***************************************************************************)
\* the pass t of the loop of ffbs has drawn x_sample[t] and computed weights
\* P[:, x_sample[t]] * betas[t-1, :] that sum to zero
ZeroSumWeightsAt(t) ==
    /\ t \in DOMAIN drawn_from
    /\ updates_sample_probs(t)
    /\ RowSum(backward_weights(betas, t, x_sample[t])) = RZero

\* C18: when the weights of a backward-sampling step sum to zero ffbs fails with
\* an error: it neither goes on to the next pass nor returns a path
C18_ZeroSumWeightsRaise ==
    hmm_pc \in {"ffbs", "done"} => \A t \in 0..(HorizonT - 1) : ~ZeroSumWeightsAt(t)

(***************************************************************************)
(* A row of alphas that sums to zero, checked under SpecHMM.               *)
(***************************************************************************)
\* a row of the table is a row of numbers
RowIsValid(row) == \A i \in States : IsFinite(row[i])

\* C19: when a row of alphas (or of alphas*betas) sums to exactly zero,
\* filter_probabilities and smooth_probabilities do not divide by that sum: no
\* row they return for it is an invalid (nan) row
C19_ZeroRowNotDivided ==
    ProbabilitiesHaveReturned =>
        \A t \in 0..(HorizonT - 1) :
            /\ RowSum(alphas[t]) = RZero => RowIsValid(filtering_probs[t])
            /\ RowSum([i \in States |-> RMul(alphas[t][i], betas[t][i])]) = RZero
                   => RowIsValid(smoothing_probs[t])

(***************************************************************************)
(* Repeated calls with identical inputs, checked under SpecRepeat.         *)
(***************************************************************************)
\* forward, backward and viterbi of the second round return what they returned
\* in the first round
TablesRepeat ==
    first_call # <<>> =>
        /\ hmm_pc = "forward" => alphas = first_call.alphas
        /\ hmm_pc = "backward" => betas = first_call.betas
        /\ hmm_pc = "viterbi" => xt_star = first_call.xt_star

\* C20: forward, backward and viterbi return identical outputs on repeated calls
\* with identical inputs, and so does ffbs: its path depends on nothing but what
\* the caller supplies
C20_RepeatedCallsAgree ==
    /\ TablesRepeat
    /\ (first_call # <<>> /\ hmm_pc = "done") => x_sample = first_call.x_sample

(***************************************************************************)
(* The inputs of the solvers, checked under SpecCalls.                     *)
(***************************************************************************)
\* a step leaves the graph, P, the emission matrix and the observations as
\* they were
InputsUnchanged ==
    /\ dag' = dag
    /\ P' = P
    /\ emp' = emp
    /\ realized_returns' = realized_returns

FirstMaximiser(t, w) ==
    LArgmax2([i \in States |->
        LAdd(LAdd(Log(emp[i][realized_returns[t]]), w[i]), log_mus[t][i])])

\* x*_t, t >= 1, is the first maximiser with the row of P of x*_{t-1}
LaterStatesFollow ==
    \A t \in 1..(HorizonT - 1) :
        xt_star[t] = FirstMaximiser(t, [i \in States |-> Log(P[xt_star[t - 1]][i])])

\* C22: x*_0 is the first maximiser of log E[i, y[0]] + log 0.5 + log_mu[0, i],
\* whatever P is, and x*_t for t >= 1 is the first maximiser of
\* log E[i, y[t]] + log P[x*_{t-1}, i] + log_mu[t, i]
C22_ViterbiPath ==
    ViterbiHasReturned =>
        /\ xt_star[0] = FirstMaximiser(0, [i \in States |-> Log(RHalf)])
        /\ LaterStatesFollow

\* log_mu[t-1, i] = max_j log E[j, y[t]] + log P[i, j] + log_mu[t, j], t = T-1 .. 1
LogMuRecursion ==
    \A t \in 1..(HorizonT - 1) : \A i \in States :
        log_mus[t - 1][i] =
            LET term(j) == LAdd(LAdd(Log(emp[j][realized_returns[t]]), Log(P[i][j])),
                                log_mus[t][j])
            IN IF LLess(term(0), term(1)) THEN term(1) ELSE term(0)

\* C23: the table of viterbi has log_mu[T-1, i] = 0 for every state i and obeys
\* the max recursion below the last row
C23_LogMuTable ==
    ViterbiHasReturned =>
        /\ \A i \in States : log_mus[HorizonT - 1][i] = LReal(0)
        /\ LogMuRecursion

(***************************************************************************)
(* The paths of the brute-force solver, checked under SpecBoth.            *)
(***************************************************************************)
\* the directed paths of an acyclic graph from v to the terminal
RECURSIVE PathsFrom(_)
PathsFrom(v) ==
    IF v = terminal THEN {<<v>>}
    ELSE UNION {{<<v>> \o p : p \in PathsFrom(w)} : w \in Succ(dag, v)}

\* the sum of the edge costs of a path
RECURSIVE CostOfPath(_)
CostOfPath(p) ==
    IF Len(p) <= 1 THEN 0 ELSE EdgeCost(dag, p[1], p[2]) + CostOfPath(Tail(p))

TraverseHasReturned == bf_pc \in {"traversed", "done"}

\* paths_costs holds every path from the start vertex to the terminal once,
\* and nothing else, each with its cost
AllPathsStored ==
    /\ {paths_costs[i].path : i \in 1..Len(paths_costs)} = PathsFrom(vertex)
    /\ \A i, j \in 1..Len(paths_costs) : paths_costs[i].path = paths_costs[j].path => i = j
    /\ \A i \in 1..Len(paths_costs) : paths_costs[i].cost = CostOfPath(paths_costs[i].path)

\* min_cost_paths holds the paths of minimum cost, all and only, each once
CheapestPathsReturned ==
    /\ Range(min_cost_paths) =
          {p \in PathsFrom(vertex) : \A q \in PathsFrom(vertex) : CostOfPath(p) <= CostOfPath(q)}
    /\ \A i, j \in 1..Len(min_cost_paths) : min_cost_paths[i] = min_cost_paths[j] => i = j

\* C24: on an acyclic graph (every edge target a key) traverse_paths never
\* raises and returns exactly the paths from the start vertex to the terminal
\* with their costs, and find_shortest_paths returns exactly the cheapest ones
C24_AllPathsEnumerated ==
    (Acyclic(dag) /\ TargetsAreKeys(dag)) =>
        /\ bf_pc # "raised"
        /\ TraverseHasReturned => AllPathsStored
        /\ bf_pc = "done" => CheapestPathsReturned

(***************************************************************************)
(* The decision grid of american_price, checked under SpecOpt.             *)
(***************************************************************************)
\* the value of the option at time index t: the payoff at the last index, the
\* larger of exercising and the discounted expected value of index t + 1 before
RECURSIVE OptionValue(_)
OptionValue(t) ==
    IF t = opt_T - 1 THEN [i \in GridPoints(opt_S) |-> RMax(RZero, RSub(opt_S[i], RInt(opt_K)))]
    ELSE LET next == OptionValue(t + 1)
         IN [i \in GridPoints(opt_S) |->
               RMax(RSub(opt_S[i], RInt(opt_K)),
                    RMul(RDiv(ROne, RAdd(ROne, opt_r)), EV_tp1(next, nS(opt_S), i)))]

\* the discounted continuation value at time index t: nothing once the option
\* has expired
Continuation(t, i) ==
    IF t = opt_T - 1 THEN RZero
    ELSE RMul(RDiv(ROne, RAdd(ROne, opt_r)), EV_tp1(OptionValue(t + 1), nS(opt_S), i))

\* a_t[t, i] is 1 exactly when S_i - K strictly exceeds the continuation value
DecisionRecorded(t) ==
    \A i \in GridPoints(opt_S) :
        a_t[t][i] = (IF RLess(Continuation(t, i), RSub(opt_S[i], RInt(opt_K))) THEN 1 ELSE 0)

\* C25: at every time index and grid point the decision grid holds 1 exactly
\* when the exercise value strictly exceeds the discounted continuation value,
\* which at the last index is that of an expired option
C25_DecisionGrid ==
    opt_pc = "done" => \A t \in 0..(opt_T - 1) : DecisionRecorded(t)

(***************************************************************************)
(* The graph of the class docstrings, checked under SpecBoth.              *)
(***************************************************************************)
\* C26: on the cost_dict of the docstring examples, where "G" is an edge target
\* and no key, neither solver raises and each returns the shortest path
\* A-C-F-G
C26_DocstringGraph ==
    (dag = DocstringCostDict /\ vertex = "A" /\ terminal = "G") =>
        /\ dp_pc # "raised"
        /\ bf_pc # "raised"
        /\ dp_pc = "done" => dp_cpath = <<"A", "C", "F", "G">>
        /\ bf_pc = "done" => min_cost_paths = << <<"A", "C", "F", "G">> >>

(***************************************************************************)
(* The iterates of find_cost_function, checked under Spec.                 *)
(***************************************************************************)
\* at least one sweep of the while loop has run to its end
HasSwept == dp_pc \in {"loop", "returned", "path", "done"} /\ dp_iter >= 1

\* C27: with non-negative edge costs the first sweep of find_cost_function is
\* applied to the all-zero guess, and successive iterates satisfy
\* J_n(v) <= J_{n+1}(v) <= the true shortest cost from v to the terminal
C27_MonotoneIterates ==
    (NonNegativeCosts(dag) /\ HasSwept) =>
        /\ J_first = [v \in KeySet(dag) |-> 0]
        /\ \A v \in KeySet(dag) : J_n[v] <= J_np1[v] /\ J_np1[v] <= TrueCost(v)

\* two sweeps have run and some vertex with a path to the terminal is strictly
\* between its previous iterate and its true cost
C27_Witness ==
    /\ NonNegativeCosts(dag)
    /\ dp_pc = "loop"
    /\ dp_iter >= 2
    /\ \E v \in KeySet(dag) :
         /\ TrueCost(v) # NoPath
         /\ J_n[v] < J_np1[v]
         /\ J_np1[v] < TrueCost(v)

(***************************************************************************)
(* Termination of the dynamic-programming solver, checked under SpecLive.  *)
(***************************************************************************)
\* acyclic, non-negative costs, every edge target a key, and an outgoing edge
\* at every vertex but the terminal
WellFormed(d) ==
    /\ Acyclic(d)
    /\ NonNegativeCosts(d)
    /\ TargetsAreKeys(d)
    /\ \A v \in KeySet(d) \ {terminal} : Succ(d, v) # {}

NoRevisit == \A i, j \in 1..Len(dp_cpath) : dp_cpath[i] = dp_cpath[j] => i = j

\* find_shortest_path has returned a path that ends at the terminal, after a
\* loop of find_cost_function that ended on two equal iterates
SolvedAtTerminal ==
    /\ dp_pc = "done"
    /\ J_n = J_np1
    /\ dp_cpath[Len(dp_cpath)] = terminal

\* C28: on a well-formed graph the loop of find_cost_function ends with two
\* equal iterates and find_shortest_path then reaches the terminal, without
\* an exception, without being cut short and without revisiting a vertex
C28_Terminates ==
    /\ [](WellFormed(dag) => (dp_pc \notin {"raised", "interrupted"} /\ NoRevisit))
    /\ (WellFormed(dag) ~> SolvedAtTerminal)

C28_Witness ==
    /\ WellFormed(dag)
    /\ SolvedAtTerminal
    /\ dp_iter >= 3
    /\ Len(dp_cpath) >= 3
    /\ dag.keys = GenKeys

(***************************************************************************)
(* The current path of traverse_paths, checked under SpecBoth.             *)
(***************************************************************************)
\* C29: on an acyclic graph (every edge target a key), from any start vertex,
\* the current path of traverse_paths is never empty and begins with the start
\* vertex, step_back_path is never applied to a path of fewer than two
\* vertices, and the search ends through the break branch
C29_CurrentPath ==
    (Acyclic(dag) /\ TargetsAreKeys(dag)) =>
        /\ bf_pc = "loop" => (bf_cpath # <<>> /\ bf_cpath[1] = vertex)
        /\ bf_err # "IndexError"
        /\ TraverseHasReturned => bf_exit = "break"

(***************************************************************************)
(* The support of the paths of ffbs, checked under SpecHMM.                *)
(***************************************************************************)
\* C30: a path that ffbs returns, every state of it drawn from weights that are
\* numbers, has positive probability: P[x_{t-1}, x_t] > 0 for t in 1..T-1 and
\* E[x_t, y[t]] > 0 for every t
C30_PathInSupport ==
    (hmm_pc = "done" /\ DrawsDefined) =>
        /\ \A t \in 1..(HorizonT - 1) : P[x_sample[t - 1]][x_sample[t]].n > 0
        /\ \A t \in 0..(HorizonT - 1) : emp[x_sample[t]][realized_returns[t]].n > 0

====
